---- MODULE Spec2Model ----
(***************************************************************************)
(* FormWatcher (src/index.js): a tracker of the fields of a form.  It      *)
(* keeps three Maps keyed by field id (originalState, currentState,        *)
(* removedFields), feeds them from change/input listeners and from a       *)
(* MutationObserver, and reports the difference through a debounced        *)
(* checkForChanges().                                                      *)
(*                                                                         *)
(* The host document is modelled by a small fixed set of elements:         *)
(*   t1  <input type=text id=x>            in the form at construction     *)
(*   t2  <input type=text id=x value=B readonly>  a replacement for t1     *)
(*   d1  <textarea name=n> (no id)                                         *)
(*   p1  <input type=text id=p class=ignore value=P readonly>              *)
(*       d1 and p1 are the children of a <div> that is added to / removed  *)
(*       from the form as a whole                                          *)
(*   r1, r2, r3  <input type=radio name=g id=r1|r2|r3>; r3 carries class   *)
(*       "ignore" too; the radios stay in the form                         *)
(* and excludeSelectors is [".ignore"].                                    *)
(* A document holds some of these elements (doc); the one of Spec is       *)
(* CoreDoc, which has r1 and r3 as its radios.                             *)
(* Specifications: Spec (a form with t1, r1, r3), SpecLate (a form with    *)
(* the radios only), SpecFair (Spec with the timeout's fairness),          *)
(* SpecNoForm (no form found), SpecEquality (any two snapshots of a field).*)
(* SpecNew (the construction, on any form).                               *)
(* A JS Map is a sequence of entries [id, data].  The entries are kept in  *)
(* one fixed order of the ids (IdOrder), not in insertion order: the order *)
(* decides only the order of the records inside one category of a diff.    *)
(* A value is [isArray, items]: a string s is Str(s), an array is Arr(xs). *)
(***************************************************************************)
EXTENDS Integers, Sequences, FiniteSets, TLC

VARIABLES
    doc,            \* the elements of the document (fixed)
    constructed,    \* the constructor found the form and ran to its end
    attached,       \* elements currently under the form
    value,          \* element -> its current string content
    checked,        \* element -> its checked state (radios)
    dataset,        \* element -> dataset.formWatcherId ("" when unset)
    originalState,  \* this.originalState
    currentState,   \* this.currentState
    removedFields,  \* this.removedFields
    lastEvent,      \* this.lastEvent
    timeoutId,      \* the debounce closure's timeoutId (0: undefined)
    timers,         \* handles of the timeouts that are scheduled
    burst,          \* calls of the debounced function since its timeout last
                    \* elapsed, counted up to MaxBurst
    out             \* what the last step did: [threw, cb], cb the callback invocations

vars == <<doc, constructed, attached, value, checked, dataset, originalState,
          currentState, removedFields, lastEvent, timeoutId, timers, burst, out>>

\* ------------------------------------------------------------------ bounds

\* Handles a timeout can get; the code holds at most one at a time.
NumHandles == 3
\* DOM calls (MutationRecords) of one script run, delivered to the observer
\* callback as one batch.
MaxRecords == 1

\* The count of debounced calls stops here.
MaxBurst == 2

\* The longest selection of a multi-select field.
MaxLen == 2

Handles == 1..NumHandles

\* ------------------------------------------------------------ the document

Elements == {"t1", "t2", "d1", "p1", "r1", "r2", "r3"}
DocOrder == <<"t1", "t2", "d1", "p1", "r1", "r2", "r3">>
Texts == {"t1", "t2", "d1", "p1"}
\* The text fields the user edits; t2 and p1 are read-only.
Editable == {"t1", "d1"}
Radios == {"r1", "r2", "r3"}
Contents == {"", "A"}

tagName(e) == IF e = "d1" THEN "textarea" ELSE "input"
type(e) == IF e \in Radios THEN "radio" ELSE IF e = "d1" THEN "textarea" ELSE "text"
name(e) == IF e \in Radios THEN "g" ELSE IF e = "d1" THEN "n" ELSE ""
idAttr(e) ==
    IF e \in {"t1", "t2"} THEN "x" ELSE IF e \in Radios THEN e ELSE IF e = "p1" THEN "p" ELSE ""
\* The value attribute of a radio is fixed; a text field's content varies.
valueOf(val, e) == IF e \in Radios THEN "on" ELSE val[e]

\* options.excludeSelectors
excludeSelectors == <<".ignore">>
\* field.matches(selector): p1 and r3 carry class "ignore".
matches(e, selector) == selector = ".ignore" /\ e \in {"p1", "r3"}
\* selector.replace(/^#/, '')
stripHash(selector) == IF selector = ".ignore" THEN ".ignore" ELSE selector

\* null, where an event [type, target] can stand.
NULL == [type |-> "null", target |-> "null"]
UNDEFINED == "undefined"

\* ------------------------------------------------------------------ values

Str(s) == [isArray |-> FALSE, items |-> <<s>>]
Arr(xs) == [isArray |-> TRUE, items |-> xs]
Bool(b) == IF b THEN "true" ELSE "false"

\* ----------------------------------------------------------------- JS Map

MapHas(m, id) == \E i \in 1..Len(m) : m[i].id = id
MapIndex(m, id) == CHOOSE i \in 1..Len(m) : m[i].id = id
MapGet(m, id) == m[MapIndex(m, id)].data
\* Every id a field of the document can have.
IdOrder == <<"x", "n-uuid-d1", "p", "r1", "r2", "r3">>
rank(id) == CHOOSE k \in 1..Len(IdOrder) : IdOrder[k] = id
MapSet(m, id, data) ==
    IF MapHas(m, id)
    THEN [m EXCEPT ![MapIndex(m, id)] = [id |-> id, data |-> data]]
    ELSE SelectSeq(m, LAMBDA en : rank(en.id) < rank(id))
         \o <<[id |-> id, data |-> data]>>
         \o SelectSeq(m, LAMBDA en : rank(en.id) > rank(id))
MapDelete(m, id) == SelectSeq(m, LAMBDA en : en.id # id)
MapKeys(m) == {m[i].id : i \in 1..Len(m)}

\* ------------------------------------------------ identity and snapshots

\* getFieldId(field): dataset.formWatcherId || id || ''
getFieldId(ds, e) == IF ds[e] # "" THEN ds[e] ELSE idAttr(e)

\* isExcluded(field)
isExcluded(ds, e) ==
    \E i \in 1..Len(excludeSelectors) :
        \/ matches(e, excludeSelectors[i])
        \/ getFieldId(ds, e) = stripHash(excludeSelectors[i])

\* crypto.randomUUID(): unique for each call; an element asks at most once,
\* since the generated id is stored in its dataset.
randomUUID(e) == "uuid-" \o e

\* getOrSetFieldID(field): the id, and the dataset after the call.
getOrSetFieldID(ds, e) ==
    LET id == getFieldId(ds, e) IN
    IF id = ""
    THEN LET gen == IF name(e) # "" THEN name(e) \o "-" \o randomUUID(e)
                                    ELSE type(e) \o "-" \o randomUUID(e)
         IN [id |-> gen, ds |-> [ds EXCEPT ![e] = gen]]
    ELSE [id |-> id, ds |-> ds]

\* formatFieldState(field).  No element of the document is a multi-select, so
\* value is always the string content (field.value || '').
formatFieldState(val, chk, e) ==
    [field |-> e,
     value |-> Str(IF valueOf(val, e) = "" THEN "" ELSE valueOf(val, e)),
     checked |-> IF type(e) \in {"checkbox", "radio"} THEN Bool(chk[e]) ELSE UNDEFINED]

\* valuesAreEqual that compares two arrays as sets of the same size.
valuesAreEqualAnyOrder(value1, value2) ==
    IF value1.isArray /\ value2.isArray
    THEN IF Len(value1.items) # Len(value2.items)
         THEN FALSE
         ELSE {value1.items[index] : index \in 1..Len(value1.items)}
              = {value2.items[index] : index \in 1..Len(value2.items)}
    ELSE value1.isArray = value2.isArray /\ value1.items = value2.items

\* valuesAreEqual(value1, value2); === on an array and a string is false.
valuesAreEqual(value1, value2) ==
    IF value1.isArray /\ value2.isArray
    THEN IF Len(value1.items) # Len(value2.items)
         THEN FALSE
         ELSE \A index \in 1..Len(value1.items) : value1.items[index] = value2.items[index]
    ELSE value1.isArray = value2.isArray /\ value1.items = value2.items

\* --------------------------------------------------------------- debounce

\* The tracker state a handler threads through its calls:
\* [cur, rem, ds, tid, tms, n, ok]; n counts the debounced calls, ok is FALSE
\* when no timer handle was left.
Tracker(cur, rem, ds, tid, tms, n) ==
    [cur |-> cur, rem |-> rem, ds |-> ds, tid |-> tid, tms |-> tms, n |-> n, ok |-> TRUE]

MinOf(S) == CHOOSE x \in S : \A y \in S : x <= y

\* debounced without its clearTimeout(timeoutId).
debouncedNoClear(st) ==
    LET free == Handles \ st.tms
    IN IF free = {}
       THEN [st EXCEPT !.ok = FALSE]
       ELSE [st EXCEPT !.tms = st.tms \cup {MinOf(free)}, !.tid = MinOf(free),
                       !.n = IF @ < MaxBurst THEN @ + 1 ELSE @]

\* debounced without its setTimeout(...): the pending timeout is cleared and
\* none is scheduled.
debouncedNoSchedule(st) ==
    [st EXCEPT !.tms = st.tms \ {st.tid},
               !.n = IF @ < MaxBurst THEN @ + 1 ELSE @]

\* One call of this.debouncedCheckForChanges(): clearTimeout(timeoutId), then
\* timeoutId = setTimeout(...).
debounced(st) ==
    LET cleared == st.tms \ {st.tid}
        free == Handles \ cleared
    IN IF free = {}
       THEN [st EXCEPT !.ok = FALSE]
       ELSE [st EXCEPT !.tms = cleared \cup {MinOf(free)}, !.tid = MinOf(free),
                       !.n = IF @ < MaxBurst THEN @ + 1 ELSE @]

\* updateCurrentState(field) that forgets the removed snapshot of the id.
updateCurrentStateForget(st, val, chk, e) ==
    LET r == getOrSetFieldID(st.ds, e) IN
    debounced([st EXCEPT !.ds = r.ds,
                         !.cur = MapSet(st.cur, r.id, formatFieldState(val, chk, e)),
                         !.rem = MapDelete(st.rem, r.id)])

\* updateCurrentState(field)
updateCurrentState(st, val, chk, e) ==
    LET r == getOrSetFieldID(st.ds, e) IN
    debounced([st EXCEPT !.ds = r.ds,
                         !.cur = MapSet(st.cur, r.id, formatFieldState(val, chk, e))])

\* fields.forEach((field) => this.updateCurrentState(field))
RECURSIVE updateEach(_, _, _, _)
updateEach(st, val, chk, fields) ==
    IF fields = <<>> THEN st
    ELSE updateEach(updateCurrentState(st, val, chk, Head(fields)), val, chk, Tail(fields))

\* form.querySelectorAll('input, select, textarea'): the elements under the
\* form, in document order.
queryFields(att) == SelectSeq(DocOrder, LAMBDA e : e \in att)

\* form.querySelectorAll(`input[type="radio"][name="${groupName}"]`)
queryRadioGroup(att, groupName) ==
    SelectSeq(DocOrder, LAMBDA e : e \in att /\ type(e) = "radio" /\ name(e) = groupName)

\* ------------------------------------------------------------ diff engine

differs(a, b) == ~valuesAreEqual(a.value, b.value) \/ a.checked # b.checked

\* The first loop of checkForChanges(), from entry i on: TRUE at the first
\* entry that is a change (break), FALSE when the loop runs out.
RECURSIVE checkLive(_, _, _, _)
checkLive(orig, cur, rem, i) ==
    IF i > Len(cur) THEN FALSE
    ELSE LET id == cur[i].id
             data == cur[i].data
         IN IF ~MapHas(orig, id)
            THEN IF MapHas(rem, id)
                 THEN IF differs(MapGet(rem, id), data) THEN TRUE
                      ELSE checkLive(orig, cur, rem, i + 1)
                 ELSE TRUE
            ELSE IF differs(MapGet(orig, id), data) THEN TRUE
                 ELSE checkLive(orig, cur, rem, i + 1)

\* checkForChanges() without its second loop.
checkRemovedNever(orig, cur) == FALSE

\* The second loop of checkForChanges(): an original id missing from current.
checkRemoved(orig, cur) == \E i \in 1..Len(orig) : ~MapHas(cur, orig[i].id)

\* A checkForChanges() that reports a difference only the first time it is
\* asked, as if reporting it had consumed it.
hasChangesOnce(orig, cur, rem) ==
    /\ out.cb = <<>>
    /\ (IF checkLive(orig, cur, rem, 1) THEN TRUE ELSE checkRemoved(orig, cur))

\* hasChanges as checkForChanges() computes it.
hasChanges(orig, cur, rem) ==
    IF checkLive(orig, cur, rem, 1) THEN TRUE ELSE checkRemoved(orig, cur)

NoChanges == [added |-> <<>>, removed |-> <<>>, modified |-> <<>>, reAdded |-> <<>>]

\* The first loop of getChanges() without its comparison with the baseline:
\* every live id that has a baseline snapshot is pushed onto modified.
RECURSIVE classifyLiveNoCompare(_, _, _, _, _)
classifyLiveNoCompare(orig, cur, rem, i, changes) ==
    IF i > Len(cur) THEN changes
    ELSE LET id == cur[i].id
             data == cur[i].data
             change == [id |-> id, field |-> data.field, value |-> data.value,
                        checked |-> data.checked]
             next ==
                IF ~MapHas(orig, id)
                THEN IF MapHas(rem, id)
                     THEN [changes EXCEPT !.reAdded = Append(@,
                              [id |-> id, field |-> data.field, value |-> data.value,
                               checked |-> data.checked,
                               previousValue |-> MapGet(rem, id).value,
                               previousChecked |-> MapGet(rem, id).checked])]
                     ELSE [changes EXCEPT !.added = Append(@, change)]
                ELSE [changes EXCEPT !.modified = Append(@,
                         [id |-> id, original |-> MapGet(orig, id), current |-> data])]
         IN classifyLiveNoCompare(orig, cur, rem, i + 1, next)

\* The first loop of getChanges(), from entry i on, pushing onto changes.
RECURSIVE classifyLive(_, _, _, _, _)
classifyLive(orig, cur, rem, i, changes) ==
    IF i > Len(cur) THEN changes
    ELSE LET id == cur[i].id
             data == cur[i].data
             change == [id |-> id, field |-> data.field, value |-> data.value,
                        checked |-> data.checked]
             next ==
                IF ~MapHas(orig, id)
                THEN IF MapHas(rem, id)
                     THEN [changes EXCEPT !.reAdded = Append(@,
                              [id |-> id, field |-> data.field, value |-> data.value,
                               checked |-> data.checked,
                               previousValue |-> MapGet(rem, id).value,
                               previousChecked |-> MapGet(rem, id).checked])]
                     ELSE [changes EXCEPT !.added = Append(@, change)]
                ELSE IF differs(MapGet(orig, id), data)
                     THEN [changes EXCEPT !.modified = Append(@,
                              [id |-> id, original |-> MapGet(orig, id), current |-> data])]
                     ELSE changes
         IN classifyLive(orig, cur, rem, i + 1, next)

\* The second loop of getChanges() without its currentState.has(id) test.
RECURSIVE classifyRemovedAll(_, _, _, _)
classifyRemovedAll(orig, cur, i, changes) ==
    IF i > Len(orig) THEN changes
    ELSE classifyRemovedAll(orig, cur, i + 1,
            [changes EXCEPT !.removed = Append(@,
                [id |-> orig[i].id, field |-> orig[i].data.field,
                 value |-> orig[i].data.value, checked |-> orig[i].data.checked])])

\* The second loop of getChanges().
RECURSIVE classifyRemoved(_, _, _, _)
classifyRemoved(orig, cur, i, changes) ==
    IF i > Len(orig) THEN changes
    ELSE classifyRemoved(orig, cur, i + 1,
            IF ~MapHas(cur, orig[i].id)
            THEN [changes EXCEPT !.removed = Append(@,
                     [id |-> orig[i].id, field |-> orig[i].data.field,
                      value |-> orig[i].data.value, checked |-> orig[i].data.checked])]
            ELSE changes)

\* getChanges()
getChanges(orig, cur, rem) ==
    classifyRemoved(orig, cur, 1, classifyLive(orig, cur, rem, 1, NoChanges))

\* options.onFormChanged is a function.
onFormChanged == TRUE

\* What checkForChanges() passes to the callback, as a list of invocations.
callback(orig, cur, rem, ev) ==
    IF onFormChanged
    THEN <<[hasChanges |-> hasChanges(orig, cur, rem),
            changes |-> getChanges(orig, cur, rem), event |-> ev]>>
    ELSE <<>>

\* ------------------------------------------------------------ construction

\* initializeState() without its isExcluded(field) test.
RECURSIVE initializeEachAll(_, _, _, _)
initializeEachAll(init, val, chk, fields) ==
    IF fields = <<>> THEN init
    ELSE LET e == Head(fields)
             r == getOrSetFieldID(init.ds, e)
         IN initializeEachAll(
                [orig |-> MapSet(init.orig, r.id, formatFieldState(val, chk, e)),
                 cur |-> MapSet(init.cur, r.id, formatFieldState(val, chk, e)),
                 ds |-> r.ds],
                val, chk, Tail(fields))

\* initializeState(): every field under the form that is not excluded gets
\* its id and one snapshot in each of originalState and currentState.
RECURSIVE initializeEach(_, _, _, _)
initializeEach(init, val, chk, fields) ==
    IF fields = <<>> THEN init
    ELSE LET e == Head(fields)
             r == getOrSetFieldID(init.ds, e)
         IN initializeEach(
                IF isExcluded(init.ds, e) THEN init
                ELSE [orig |-> MapSet(init.orig, r.id, formatFieldState(val, chk, e)),
                      cur |-> MapSet(init.cur, r.id, formatFieldState(val, chk, e)),
                      ds |-> r.ds],
                val, chk, Tail(fields))

initializeState(att, val, chk, ds) ==
    initializeEach([orig |-> <<>>, cur |-> <<>>, ds |-> ds], val, chk, queryFields(att))

Idle == [threw |-> FALSE, cb |-> <<>>]
\* A method that reads a field the constructor never set: a TypeError.
Threw == [threw |-> TRUE, cb |-> <<>>]

\* The document of Spec, and the forms a tracker is constructed on.
CoreDoc == {"t1", "t2", "d1", "p1", "r1", "r3"}
CoreForms == {{"t1", "r1", "r3"}}

\* The state the constructor leaves on a form found.
Constructed(forms) ==
    /\ constructed = TRUE
    /\ attached \in forms
    /\ value = [e \in Texts |-> IF e = "t2" THEN "B" ELSE IF e = "p1" THEN "P" ELSE ""]
    /\ checked = [e \in Radios |-> FALSE]
    /\ LET init == initializeState(attached, value, checked, [e \in Elements |-> ""])
       IN /\ originalState = init.orig
          /\ currentState = init.cur
          /\ dataset = init.ds
    /\ removedFields = <<>>
    /\ lastEvent = NULL
    /\ timeoutId = 0
    /\ timers = {}
    /\ burst = 0
    /\ out = Idle

\* new FormWatcher(form, {excludeSelectors, onFormChanged}) on a form found.
Init == doc = CoreDoc /\ Constructed(CoreForms)

\* ---------------------------------------------------------------- helpers

Now == Tracker(currentState, removedFields, dataset, timeoutId, timers, burst)

Commit(st) ==
    /\ st.ok
    /\ currentState' = st.cur
    /\ removedFields' = st.rem
    /\ dataset' = st.ds
    /\ timeoutId' = st.tid
    /\ timers' = st.tms
    /\ burst' = st.n

\* The listeners and the observer are wired only when the constructor found
\* the form (it returns before setupEventListeners() otherwise).
Wired(h) ==
    IF constructed
    THEN Commit(h.st) /\ lastEvent' = h.lastEvent
    ELSE UNCHANGED <<currentState, removedFields, dataset, timeoutId, timers, burst, lastEvent>>

Event(kind, e) == [type |-> kind, target |-> e]

\* The 'change' listener; h is [st, lastEvent].
changeListener(h, val, chk, att, e) ==
    IF tagName(e) \in {"input", "select", "textarea"} /\ ~isExcluded(h.st.ds, e)
    THEN [lastEvent |-> Event("change", e),
          st |-> IF type(e) = "radio" /\ name(e) # ""
                 THEN updateEach(h.st, val, chk, queryRadioGroup(att, name(e)))
                 ELSE updateCurrentState(h.st, val, chk, e)]
    ELSE h

\* The 'input' listener.
inputListener(h, val, chk, e) ==
    IF /\ ~isExcluded(h.st.ds, e)
       /\ \/ tagName(e) = "textarea"
          \/ (tagName(e) = "input" /\ type(e) = "text")
    THEN [lastEvent |-> Event("input", e), st |-> updateCurrentState(h.st, val, chk, e)]
    ELSE h

\* ------------------------------------------------------------ user events
\* A user event is a task of its own: the observer has been called for every
\* DOM call made before it.

\* The user edits a text field: its content changes and 'input' is dispatched.
UserType(e, v) ==
    /\ e \in Editable \cap attached /\ v \in Contents \ {value[e]}
    /\ value' = [value EXCEPT ![e] = v]
    /\ Wired(inputListener([st |-> Now, lastEvent |-> lastEvent], value', checked, e))
    /\ out' = Idle
    /\ UNCHANGED <<doc, constructed, attached, checked, originalState>>

\* The user leaves an edited text field: 'change' is dispatched.
UserCommit(e) ==
    /\ e \in Editable \cap attached
    /\ Wired(changeListener([st |-> Now, lastEvent |-> lastEvent], value, checked, attached, e))
    /\ out' = Idle
    /\ UNCHANGED <<doc, constructed, attached, value, checked, originalState>>

\* The user selects a radio: it becomes checked, the other radios of its
\* group under the form become unchecked, 'input' then 'change' are dispatched.
UserClick(r) ==
    /\ r \in Radios \cap attached /\ ~checked[r]
    /\ checked' = [x \in Radios |->
                     IF x = r THEN TRUE
                     ELSE IF x \in attached /\ name(x) = name(r) THEN FALSE ELSE checked[x]]
    /\ Wired(changeListener(
                inputListener([st |-> Now, lastEvent |-> lastEvent], value, checked', r),
                value, checked', attached, r))
    /\ out' = Idle
    /\ UNCHANGED <<doc, constructed, attached, value, originalState>>

\* ------------------------------------------------- structural mutations
\* A script adds, removes or replaces child nodes of the form.  Each DOM call
\* queues one MutationRecord, and the observer callback runs with the queued
\* records when the script ends, before any other task.  A node is a field
\* element itself, or the <div> that holds d1 and p1.

Nodes == {"t1", "t2", "div"}
fieldsOf(node) == IF node = "div" THEN <<"d1", "p1">> ELSE <<node>>
\* node.matches('input, select, textarea')
isField(node) == node # "div"
elementsOf(node) == {fieldsOf(node)[i] : i \in 1..Len(fieldsOf(node))}
under(att, node) == elementsOf(node) \subseteq att
inDoc(d, node) == elementsOf(node) \subseteq d

\* No two fields under the form may share an id (a caller error).
distinctIds(att, ds) ==
    \A a, b \in att : a # b /\ getFieldId(ds, a) # "" => getFieldId(ds, a) # getFieldId(ds, b)

\* Inserting a checked radio unchecks the other radios of its group.
insertChecked(chk, att, node) ==
    IF node \in Radios /\ chk[node]
    THEN [x \in Radios |-> IF x # node /\ x \in att /\ name(x) = name(node) THEN FALSE ELSE chk[x]]
    ELSE chk

Record(added, removed) == [addedNodes |-> added, removedNodes |-> removed]

\* The document during a script: [att, chk, records].
\* form.appendChild(node)
domAppend(d, node) ==
    [att |-> d.att \cup elementsOf(node),
     chk |-> insertChecked(d.chk, d.att, node),
     records |-> Append(d.records, Record(<<node>>, <<>>))]

\* node.remove()
domRemove(d, node) ==
    [att |-> d.att \ elementsOf(node),
     chk |-> d.chk,
     records |-> Append(d.records, Record(<<>>, <<node>>))]

\* old.replaceWith(new): one record with both nodes.
domReplace(d, old, new) ==
    [att |-> (d.att \ elementsOf(old)) \cup elementsOf(new),
     chk |-> insertChecked(d.chk, d.att \ elementsOf(old), new),
     records |-> Append(d.records, Record(<<new>>, <<old>>))]

\* The documents one more DOM call can make of d.
domCalls(dc, ds, d) ==
    {x \in {domAppend(d, node) : node \in {n \in Nodes : inDoc(dc, n) /\ ~under(d.att, n)}}
            \cup {domReplace(d, c[1], c[2]) :
                    c \in {c \in Nodes \X Nodes :
                             under(d.att, c[1]) /\ inDoc(dc, c[2]) /\ ~under(d.att, c[2])}} :
        distinctIds(x.att, ds)}
    \cup {domRemove(d, node) : node \in {n \in Nodes : under(d.att, n)}}

\* The documents a script of 1..n DOM calls can make of d.
RECURSIVE scripts(_, _, _, _)
scripts(dc, ds, d, n) ==
    IF n = 0 THEN {}
    ELSE LET once == domCalls(dc, ds, d)
         IN once \cup UNION {scripts(dc, ds, x, n - 1) : x \in once}

\* The fields of an added or removed node:
\* node.matches(...) ? [node] : node.querySelectorAll(...)
fieldsIn(node) == IF isField(node) THEN <<node>> ELSE fieldsOf(node)

\* mutation.addedNodes.forEach(...), for the fields of the added nodes.
RECURSIVE observeAdded(_, _, _, _)
observeAdded(st, val, chk, fields) ==
    IF fields = <<>> THEN st
    ELSE observeAdded(
            IF isExcluded(st.ds, Head(fields)) THEN st
            ELSE updateCurrentState(st, val, chk, Head(fields)),
            val, chk, Tail(fields))

\* The body of the removed-field loop without its currentState.delete(id).
observeRemovedFieldNoDelete(st, e) ==
    LET id == getFieldId(st.ds, e) IN
    IF isExcluded(st.ds, e) THEN st
    ELSE IF id # "" /\ MapHas(st.cur, id)
         THEN debounced([st EXCEPT !.rem = MapSet(st.rem, id, MapGet(st.cur, id))])
         ELSE st

\* The body of the removed-field loop for one field.
observeRemovedField(st, e) ==
    LET id == getFieldId(st.ds, e) IN
    IF isExcluded(st.ds, e) THEN st
    ELSE IF id # "" /\ MapHas(st.cur, id)
         THEN debounced([st EXCEPT !.rem = MapSet(st.rem, id, MapGet(st.cur, id)),
                                   !.cur = MapDelete(st.cur, id)])
         ELSE st

\* mutation.removedNodes.forEach(...), for the fields of the removed nodes.
RECURSIVE observeRemoved(_, _)
observeRemoved(st, fields) ==
    IF fields = <<>> THEN st
    ELSE observeRemoved(observeRemovedField(st, Head(fields)), Tail(fields))

RECURSIVE fieldsOfNodes(_)
fieldsOfNodes(nodes) ==
    IF nodes = <<>> THEN <<>> ELSE fieldsIn(Head(nodes)) \o fieldsOfNodes(Tail(nodes))

\* One MutationRecord: its added nodes first, then its removed nodes.
observeRecord(st, val, chk, mutation) ==
    observeRemoved(observeAdded(st, val, chk, fieldsOfNodes(mutation.addedNodes)),
                   fieldsOfNodes(mutation.removedNodes))

\* mutations.forEach(...)
RECURSIVE observeAll(_, _, _, _)
observeAll(st, val, chk, mutations) ==
    IF mutations = <<>> THEN st
    ELSE observeAll(observeRecord(st, val, chk, Head(mutations)), val, chk, Tail(mutations))

\* A script makes 1..MaxRecords DOM calls, and the MutationObserver callback
\* runs with the records they queued.
Mutation ==
    /\ \E d \in scripts(doc, dataset, [att |-> attached, chk |-> checked, records |-> <<>>],
                       MaxRecords) :
        /\ attached' = d.att
        /\ checked' = d.chk
        /\ Wired([st |-> observeAll(Now, value, d.chk, d.records), lastEvent |-> lastEvent])
    /\ out' = Idle
    /\ UNCHANGED <<doc, constructed, value, originalState>>

\* ------------------------------------------------------ timer and methods
\* The timeout and the application's calls are tasks of their own, like the
\* user events.

\* checkForChanges(): its return value and its callback invocations.
checkForChanges(orig, cur, rem, ev) ==
    [ret |-> hasChanges(orig, cur, rem), cb |-> callback(orig, cur, rem, ev)]

\* A debounced recomputation that takes the live map as the new baseline
\* after it has reported.
TimerFireRebase(h) ==
    /\ constructed
    /\ h \in timers
    /\ timers' = timers \ {h}
    /\ burst' = 0
    /\ out' = [threw |-> FALSE,
               cb |-> callback(originalState, currentState, removedFields, lastEvent)]
    /\ originalState' = currentState
    /\ UNCHANGED <<doc, constructed, attached, value, checked, dataset,
                   currentState, removedFields, lastEvent, timeoutId>>

\* The debounce timeout h elapses: () => this.checkForChanges() runs.
TimerFire(h) ==
    /\ constructed
    /\ h \in timers
    /\ timers' = timers \ {h}
    /\ burst' = 0
    /\ LET r == checkForChanges(originalState, currentState, removedFields, lastEvent)
       IN out' = [threw |-> FALSE, cb |-> r.cb]
    /\ UNCHANGED <<doc, constructed, attached, value, checked, dataset, originalState,
                   currentState, removedFields, lastEvent, timeoutId>>

\* The application calls watcher.checkForChanges().
CallCheckForChanges ==
    /\ IF constructed
       THEN out' = [threw |-> FALSE,
                    cb |-> checkForChanges(originalState, currentState, removedFields,
                                           lastEvent).cb]
       ELSE out' = Threw
    /\ UNCHANGED <<doc, constructed, attached, value, checked, dataset, originalState,
                   currentState, removedFields, lastEvent, timeoutId, timers, burst>>

\* The application calls watcher.getChanges().
CallGetChanges ==
    /\ out' = IF constructed THEN Idle ELSE Threw
    /\ UNCHANGED <<doc, constructed, attached, value, checked, dataset, originalState,
                   currentState, removedFields, lastEvent, timeoutId, timers, burst>>

\* resetState() without its currentState.clear().
RECURSIVE copyInto(_, _, _)
copyInto(orig, cur, i) ==
    IF i > Len(orig) THEN cur
    ELSE copyInto(orig, MapSet(cur, orig[i].id, orig[i].data), i + 1)
resetStateNoClear(orig, cur) == [orig |-> orig, cur |-> copyInto(orig, cur, 1)]

\* resetState(): the maps [orig, cur] after currentState.clear() and the copy
\* of every originalState entry into currentState.
resetState(orig, cur) ==
    [orig |-> orig,
     cur |-> [i \in 1..Len(orig) |-> [id |-> orig[i].id, data |-> orig[i].data]]]

\* The application calls watcher.resetState().
CallResetState ==
    /\ IF constructed
       THEN LET m == resetState(originalState, currentState)
            IN /\ originalState' = m.orig
               /\ Commit(debounced([Now EXCEPT !.cur = m.cur]))
               /\ out' = Idle
       ELSE /\ out' = Threw
            /\ UNCHANGED <<originalState, currentState, removedFields, dataset,
                           timeoutId, timers, burst>>
    /\ UNCHANGED <<doc, constructed, attached, value, checked, lastEvent>>

\* ----------------------------------------------------------- specification

Next ==
    \/ \E e \in Editable, v \in Contents : UserType(e, v)
    \/ \E e \in Editable : UserCommit(e)
    \/ \E r \in Radios : UserClick(r)
    \/ Mutation
    \/ \E h \in Handles : TimerFire(h)
    \/ CallCheckForChanges
    \/ CallGetChanges
    \/ CallResetState

Spec == Init /\ [][Next]_vars

\* The same tracker with the guarantee of setTimeout: a timeout that stays
\* scheduled elapses.  A call of the debounced function clears the pending
\* timeout and schedules another, so this says nothing about when.
SpecFair == Init /\ [][Next]_vars /\ WF_vars(\E h \in Handles : TimerFire(h))

\* new FormWatcher(selector) when the selector matches nothing: 'Form not
\* found' is logged and the constructor returns; no field of the instance is
\* set (the maps below stand for undefined fields), nothing is wired.
InitNoForm ==
    /\ doc = CoreDoc
    /\ constructed = FALSE
    /\ attached \in CoreForms
    /\ value = [e \in Texts |-> IF e = "t2" THEN "B" ELSE IF e = "p1" THEN "P" ELSE ""]
    /\ checked = [e \in Radios |-> FALSE]
    /\ dataset = [e \in Elements |-> ""]
    /\ originalState = <<>> /\ currentState = <<>> /\ removedFields = <<>>
    /\ lastEvent = NULL
    /\ timeoutId = 0 /\ timers = {} /\ burst = 0
    /\ out = Idle

\* The same events, DOM calls and method calls; no timeout is ever scheduled.
NextNoForm ==
    \/ \E e \in Editable, v \in Contents : UserType(e, v)
    \/ \E e \in Editable : UserCommit(e)
    \/ \E r \in Radios : UserClick(r)
    \/ Mutation
    \/ CallCheckForChanges
    \/ CallGetChanges
    \/ CallResetState

SpecNoForm == InitNoForm /\ [][NextNoForm]_vars

\* new FormWatcher(form, ...) on a form that holds only the radios: the text
\* fields are added to it later, so their ids have no baseline snapshot.
LateForms == {{"r1", "r3"}}
InitLate == doc = CoreDoc /\ Constructed(LateForms)
SpecLate == InitLate /\ [][Next]_vars

\* The comparison of two snapshots taken alone: a tracker whose form has one
\* field s1 of id "s", with any baseline snapshot and any live snapshot.  The
\* value of a snapshot is a string, or the array a multi-select gives (the
\* values of its selected options, in the order of its options, which a
\* script can change); checked is true, false or undefined.
Options == {"a", "b"}
Selections == UNION {[1..k -> Options] : k \in 0..MaxLen}
Values == {Str(s) : s \in {""} \cup Options} \cup {Arr(xs) : xs \in Selections}
Checks == {Bool(TRUE), Bool(FALSE), UNDEFINED}

InitEquality ==
    /\ doc = {"s1"}
    /\ constructed = TRUE
    /\ attached = {"s1"}
    /\ value = [e \in Texts |-> ""]
    /\ checked = [e \in Radios |-> FALSE]
    /\ dataset = [e \in Elements |-> ""]
    /\ \E value1 \in Values, value2 \in Values, checked1 \in Checks, checked2 \in Checks :
        /\ originalState = <<[id |-> "s", data |->
                                 [field |-> "s1", value |-> value1, checked |-> checked1]]>>
        /\ currentState = <<[id |-> "s", data |->
                                [field |-> "s1", value |-> value2, checked |-> checked2]]>>
    /\ removedFields = <<>>
    /\ lastEvent = NULL
    /\ timeoutId = 0 /\ timers = {} /\ burst = 0
    /\ out = Idle

\* The application asks for the difference.
NextEquality ==
    \/ CallCheckForChanges
    \/ CallGetChanges

SpecEquality == InitEquality /\ [][NextEquality]_vars

\* The construction taken alone: a document with a form of any of the fields
\* (no two of one id), the text fields with any content, at most one radio of
\* the group checked, and no tracker yet.
InitNew ==
    /\ doc = Elements
    /\ constructed = FALSE
    /\ attached \in {att \in SUBSET Elements : distinctIds(att, [e \in Elements |-> ""])}
    /\ value \in {val \in [Texts -> {"", "A", "B", "P"}] :
                     /\ val["t2"] = "B" /\ val["p1"] = "P"
                     /\ val["t1"] \in Contents /\ val["d1"] \in Contents}
    /\ checked \in {chk \in [Radios -> BOOLEAN] :
                       Cardinality({r \in Radios \cap attached : chk[r]}) <= 1}
    /\ dataset = [e \in Elements |-> ""]
    /\ originalState = <<>> /\ currentState = <<>> /\ removedFields = <<>>
    /\ lastEvent = NULL
    /\ timeoutId = 0 /\ timers = {} /\ burst = 0
    /\ out = Idle

\* new FormWatcher(form, {excludeSelectors, onFormChanged}) on the form: the
\* fields are set, initializeState() runs, the listeners and the observer
\* are wired.
Construct ==
    /\ ~constructed
    /\ constructed' = TRUE
    /\ LET init == initializeState(attached, value, checked, dataset)
       IN /\ originalState' = init.orig
          /\ currentState' = init.cur
          /\ dataset' = init.ds
    /\ removedFields' = <<>>
    /\ lastEvent' = NULL
    /\ timeoutId' = 0 /\ timers' = {} /\ burst' = 0
    /\ out' = Idle
    /\ UNCHANGED <<doc, attached, value, checked>>

\* The construction, then the application asks for the difference.
NextNew ==
    \/ Construct
    \/ constructed /\ CallCheckForChanges
    \/ constructed /\ CallGetChanges

SpecNew == InitNew /\ [][NextNew]_vars

\* ------------------------------------------------------------------ claims

Changes == getChanges(originalState, currentState, removedFields)
HasChanges == hasChanges(originalState, currentState, removedFields)
\* The ids of the records of one category of a diff.
idsOf(category) == {category[k].id : k \in 1..Len(category)}
\* The ids of the excluded fields of the document.
ExcludedIds == {getFieldId(dataset, e) : e \in {x \in doc : isExcluded(dataset, x)}}

\* C1: resetState() replaces the baseline (originalState) by a copy of the
\* live map (currentState) as it was before the call, and leaves the live map
\* unchanged.
C1_ResetCopiesLiveToBaseline ==
    [][CallResetState => (originalState' = currentState /\ currentState' = currentState)]_vars

\* C2: checkForChanges() returns true if and only if one of the four
\* categories of getChanges() is non-empty; a callback invoked with
\* hasChanges = false gets a diff with four empty categories.
C2_SameClassification ==
    /\ HasChanges <=> Changes # NoChanges
    /\ \A k \in 1..Len(out.cb) : ~out.cb[k].hasChanges => out.cb[k].changes = NoChanges

\* C3: a live id without a baseline snapshot and with a removed snapshot prev
\* has a record in reAdded (value and checked of the live snapshot,
\* previousValue and previousChecked of prev) if and only if prev and the live
\* snapshot differ; when they are equal and nothing else changed,
\* checkForChanges() is false.
C3_ReAddedIffDiffers ==
    \A i \in 1..Len(currentState) :
        LET id == currentState[i].id
            cur == currentState[i].data
        IN ~MapHas(originalState, id) /\ MapHas(removedFields, id) =>
            LET prev == MapGet(removedFields, id) IN
            /\ (\E k \in 1..Len(Changes.reAdded) :
                    /\ Changes.reAdded[k].id = id
                    /\ Changes.reAdded[k].value = cur.value
                    /\ Changes.reAdded[k].previousValue = prev.value
                    /\ Changes.reAdded[k].previousChecked = prev.checked)
               <=> differs(prev, cur)
            /\ (id \in idsOf(Changes.reAdded)) <=> differs(prev, cur)

\* C4: an excluded field is in none of the three maps and in no category of
\* the diff.
C4_ExcludedNeverTracked ==
    \A id \in ExcludedIds :
        /\ ~MapHas(originalState, id)
        /\ ~MapHas(currentState, id)
        /\ ~MapHas(removedFields, id)
        /\ id \notin idsOf(Changes.added) \cup idsOf(Changes.removed)
                     \cup idsOf(Changes.modified) \cup idsOf(Changes.reAdded)

\* C5: every call of the debounced function cancels the pending timeout and
\* schedules a new one, so at most one is pending, and exactly one while calls
\* have been made since the last one elapsed; every step that changes
\* currentState or removedFields, and every reset, makes such a call; when
\* the timeout elapses nothing is left pending and the callback is invoked
\* exactly once, with the diff of the maps as they are then.
C5_DebounceCollapse ==
    /\ [](/\ Cardinality(timers) <= 1
          /\ burst = 0 <=> timers = {}
          /\ timers \subseteq {timeoutId})
    /\ [][/\ (currentState' # currentState \/ removedFields' # removedFields \/ CallResetState)
             => /\ Cardinality(timers') = 1
                /\ burst' >= 1
                /\ burst < MaxBurst => burst' > burst
          /\ (\E h \in Handles : TimerFire(h))
             => /\ timers' = {} /\ burst' = 0
                /\ Len(out'.cb) = 1
                /\ out'.cb[1].changes = getChanges(originalState', currentState', removedFields')
                /\ out'.cb[1].hasChanges = hasChanges(originalState', currentState', removedFields')
                /\ <<originalState', currentState', removedFields'>>
                     = <<originalState, currentState, removedFields>>]_vars

\* C5 witness: several calls of the debounced function, one timeout pending.
C5_Witness == burst = MaxBurst /\ Cardinality(timers) = 1 /\ HasChanges

C7_RoundTrip ==
    [][/\ CallResetState
          => /\ ~hasChanges(originalState', currentState', removedFields')
             /\ Cardinality(timers') = 1
       /\ (~HasChanges /\ ((\E h \in Handles : TimerFire(h)) \/ CallCheckForChanges))
          => /\ Len(out'.cb) = 1 /\ ~out'.cb[1].hasChanges
             /\ ~hasChanges(originalState', currentState', removedFields')]_vars

\* C7 witness: a reset has brought the live snapshot of t1 back to the
\* baseline while the field itself holds "A"; its recomputation is pending.
C7_Witness ==
    /\ "t1" \in attached /\ value["t1"] = "A"
    /\ MapHas(currentState, "x") /\ MapGet(currentState, "x").value = Str("")
    /\ ~HasChanges /\ timers # {}

C9_InertWithoutForm ==
    ~constructed => ~out.threw /\ timers = {} /\ out.cb = <<>>

\* C10: a qualifying change or input event is the stored event after its
\* listener ran, a structural addition leaves the stored event null, and the
\* callback of the debounced recomputation gets the stored event.
C10_EventOfLastTrigger ==
    [][/\ \A e \in Editable :
            /\ (\E v \in Contents : UserType(e, v)) => lastEvent' = Event("input", e)
            /\ UserCommit(e) => lastEvent' = Event("change", e)
       /\ \A r \in Radios :
            UserClick(r) /\ ~isExcluded(dataset, r) => lastEvent' = Event("change", r)
       /\ (/\ Mutation
           /\ attached \subseteq attached'
           /\ \E e \in attached' \ attached : ~isExcluded(dataset', e))
          => lastEvent' = NULL
       /\ (\E h \in Handles : TimerFire(h))
          => \A k \in 1..Len(out'.cb) : out'.cb[k].event = lastEvent]_vars

\* The records of one category of a diff that carry the id.
recordsOf(category, id) == {k \in 1..Len(category) : category[k].id = id}

\* C11: getChanges() puts a live id that has neither a baseline snapshot nor a
\* removed snapshot in added, once, with the live value and checked, and in no
\* other category; it puts a live id that has a baseline snapshot in modified,
\* once, with original the baseline snapshot and current the live snapshot, if
\* and only if the two differ (values unequal under valuesAreEqual, or checked
\* not identical), and in no category at all when they are equal.
C11_LiveClassification ==
    \A id \in MapKeys(currentState) :
        LET cur == MapGet(currentState, id) IN
        /\ (~MapHas(originalState, id) /\ ~MapHas(removedFields, id)) =>
              /\ Cardinality(recordsOf(Changes.added, id)) = 1
              /\ \A k \in recordsOf(Changes.added, id) :
                    /\ Changes.added[k].value = cur.value
                    /\ Changes.added[k].checked = cur.checked
              /\ id \notin idsOf(Changes.modified) \cup idsOf(Changes.reAdded)
                           \cup idsOf(Changes.removed)
        /\ MapHas(originalState, id) =>
              LET base == MapGet(originalState, id)
                  same == /\ valuesAreEqual(base.value, cur.value)
                          /\ base.checked = cur.checked
              IN /\ id \notin idsOf(Changes.added) \cup idsOf(Changes.reAdded)
                              \cup idsOf(Changes.removed)
                 /\ same => id \notin idsOf(Changes.modified)
                 /\ ~same =>
                       /\ Cardinality(recordsOf(Changes.modified, id)) = 1
                       /\ \A k \in recordsOf(Changes.modified, id) :
                             /\ Changes.modified[k].original = base
                             /\ Changes.modified[k].current = cur

\* C11 witness: the diff has an added field, a modified field with both of
\* its snapshots, and a live baseline field that is in no category.
C11_Witness ==
    /\ Changes.added # <<>>
    /\ \E k \in 1..Len(Changes.modified) :
          Changes.modified[k].original.value # Changes.modified[k].current.value
    /\ \E id \in MapKeys(currentState) \cap MapKeys(originalState) :
          id \notin idsOf(Changes.modified)

\* The non-excluded fields a step removes from the form that have an id with
\* a live snapshot before the step.
RemovedLive ==
    {e \in attached \ attached' :
        /\ ~isExcluded(dataset, e)
        /\ getFieldId(dataset, e) # ""
        /\ MapHas(currentState, getFieldId(dataset, e))}

\* C12: previousValue and previousChecked of a reAdded record are those of the
\* removed snapshot of its id; a step that removes a field whose id is live
\* leaves, as the removed snapshot of that id, the value and checked the live
\* snapshot had before the removal (also when the same step adds another
\* element with that id); and no other step changes a removed snapshot.
C12_PreviousIsSnapshotAtRemoval ==
    /\ [](\A k \in 1..Len(Changes.reAdded) :
            LET prev == MapGet(removedFields, Changes.reAdded[k].id)
            IN /\ Changes.reAdded[k].previousValue = prev.value
               /\ Changes.reAdded[k].previousChecked = prev.checked)
    /\ [][/\ \A e \in RemovedLive :
                LET id == getFieldId(dataset, e) IN
                /\ MapHas(removedFields', id)
                /\ MapGet(removedFields', id).value = MapGet(currentState, id).value
                /\ MapGet(removedFields', id).checked = MapGet(currentState, id).checked
          /\ ~Mutation => removedFields' = removedFields]_vars

\* C13: checkForChanges(), getChanges() and the debounced recomputation leave
\* originalState, currentState and removedFields as they are, so the boolean
\* checkForChanges() computes is the same before and after; a call of
\* checkForChanges() that directly follows a computation (a call or the
\* debounced one) reports the boolean that computation reported.
C13_Idempotence ==
    [][/\ (CallCheckForChanges \/ CallGetChanges \/ \E h \in Handles : TimerFire(h))
          => /\ <<originalState', currentState', removedFields'>>
                  = <<originalState, currentState, removedFields>>
             /\ hasChanges(originalState', currentState', removedFields') = HasChanges
       /\ CallCheckForChanges
          => /\ Len(out'.cb) = 1
             /\ out'.cb[1].hasChanges = HasChanges
             /\ out.cb # <<>> => out'.cb[1].hasChanges = out.cb[1].hasChanges]_vars

\* C13 witness: checkForChanges() was called, while a recomputation is
\* pending, on maps with a removed snapshot, and reported a difference.
C13_Witness ==
    /\ Len(out.cb) = 1 /\ out.cb[1].hasChanges
    /\ timers # {} /\ removedFields # <<>>

\* The equality rule as stated: both values are sequences of equal length
\* with pairwise equal elements, or both are scalars and equal.
EqualByRule(value1, value2) ==
    \/ /\ value1.isArray /\ value2.isArray
       /\ Len(value1.items) = Len(value2.items)
       /\ \A index \in 1..Len(value1.items) : value1.items[index] = value2.items[index]
    \/ /\ ~value1.isArray /\ ~value2.isArray
       /\ value1.items[1] = value2.items[1]

\* C14: valuesAreEqual() is true exactly for two arrays of equal length with
\* pairwise equal elements in the same order and for two equal scalars, never
\* for an array and a scalar, and not for [a,b] and [b,a]; the diff of a
\* baseline and a live snapshot of one id reports a difference, and a modified
\* record, exactly when the values are unequal or checked is not identical
\* (undefined and undefined are identical).
C14_EqualityRule ==
    LET base == MapGet(originalState, "s")
        cur == MapGet(currentState, "s")
        same == EqualByRule(base.value, cur.value) /\ base.checked = cur.checked
    IN /\ valuesAreEqual(base.value, cur.value) <=> EqualByRule(base.value, cur.value)
       /\ base.value.isArray # cur.value.isArray => ~valuesAreEqual(base.value, cur.value)
       /\ ~valuesAreEqual(Arr(<<"a", "b">>), Arr(<<"b", "a">>))
       /\ valuesAreEqual(Arr(<<"a", "b">>), Arr(<<"a", "b">>))
       /\ HasChanges <=> ~same
       /\ Changes.modified # <<>> <=> ~same
       /\ \A k \in 1..Len(out.cb) :
             /\ out.cb[k].hasChanges <=> ~same
             /\ out.cb[k].changes.modified # <<>> <=> ~same

\* C14 witness: checkForChanges() has compared the selections [a,b] and [b,a]
\* of a field whose checked is undefined in both snapshots.
C14_Witness ==
    /\ MapGet(originalState, "s") = [field |-> "s1", value |-> Arr(<<"a", "b">>),
                                     checked |-> UNDEFINED]
    /\ MapGet(currentState, "s") = [field |-> "s1", value |-> Arr(<<"b", "a">>),
                                    checked |-> UNDEFINED]
    /\ Len(out.cb) = 1 /\ out.cb[1].hasChanges

\* The ids of the non-excluded fields under the form.
PresentIds(att, ds) == {getFieldId(ds, e) : e \in {x \in att : ~isExcluded(ds, x)}}

\* C15: when the keys of currentState are the ids of the non-excluded fields
\* under the form, they still are after the observer has handled the records
\* of a script; every non-excluded field the script has put under the form
\* (one that replaces a field of the same id included) has its id in
\* currentState with its own snapshot, and that id is not in removed.
C15_LiveKeysArePresentFields ==
    [][(Mutation /\ MapKeys(currentState) = PresentIds(attached, dataset))
       => /\ MapKeys(currentState') = PresentIds(attached', dataset')
          /\ \A e \in attached' \ attached :
                ~isExcluded(dataset', e) =>
                    LET id == getFieldId(dataset', e) IN
                    /\ MapHas(currentState', id)
                    /\ MapGet(currentState', id) = formatFieldState(value', checked', e)
                    /\ id \notin idsOf(getChanges(originalState', currentState',
                                                  removedFields').removed)]_vars

\* The radios under the form that share the group name of r.
GroupOf(att, r) == {s \in Radios \cap att : name(s) = name(r)}

\* C16: after the change event of a selected radio with a group name is
\* handled, every non-excluded radio of its group under the form has a live
\* snapshot equal to its value and checked state at that moment; the input or
\* change event of a text field writes the live snapshot of that field, and
\* no other entry of currentState.
C16_RadioGroupSnapshots ==
    [][/\ \A r \in Radios :
            (UserClick(r) /\ name(r) # "") =>
                \A s \in GroupOf(attached', r) :
                    ~isExcluded(dataset', s) =>
                        /\ MapHas(currentState', getFieldId(dataset', s))
                        /\ MapGet(currentState', getFieldId(dataset', s))
                             = formatFieldState(value', checked', s)
       /\ \A e \in Editable :
            ((\E v \in Contents : UserType(e, v)) \/ UserCommit(e)) =>
                LET target == getFieldId(dataset', e) IN
                /\ MapHas(currentState', target)
                /\ MapGet(currentState', target) = formatFieldState(value', checked', e)
                /\ MapKeys(currentState') = MapKeys(currentState) \cup {target}
                /\ \A id \in MapKeys(currentState) \ {target} :
                      MapGet(currentState', id) = MapGet(currentState, id)]_vars

\* A step of a listener, of the timeout or of a method: any step but the
\* observer's.
NotObserver ==
    \/ \E e \in Editable, v \in Contents : UserType(e, v)
    \/ \E e \in Editable : UserCommit(e)
    \/ \E r \in Radios : UserClick(r)
    \/ \E h \in Handles : TimerFire(h)
    \/ CallCheckForChanges
    \/ CallGetChanges
    \/ CallResetState

\* C17: what the observer does for one removed field e with id x, in any
\* state the tracker is in.  If e is not excluded and x has a live snapshot,
\* that snapshot becomes the removed snapshot of x, x leaves currentState, no
\* other entry of either map changes and the debounced function is called
\* (one timeout pending afterwards).  Otherwise nothing changes and no call is
\* made.  In a step, a live id disappears only by a removal or a reset, a
\* removal leaves it with a removed snapshot and a pending timeout, only a
\* removal changes removedFields, and originalState stays as it is.
C17_RemovalMovesSnapshot ==
    /\ [](\A e \in doc :
            LET x == getFieldId(dataset, e)
                st == observeRemovedField(Now, e)
            IN IF ~isExcluded(dataset, e) /\ x # "" /\ MapHas(currentState, x)
               THEN /\ MapHas(st.rem, x)
                    /\ MapGet(st.rem, x) = MapGet(currentState, x)
                    /\ MapKeys(st.rem) = MapKeys(removedFields) \cup {x}
                    /\ \A id \in MapKeys(removedFields) \ {x} :
                          MapGet(st.rem, id) = MapGet(removedFields, id)
                    /\ MapKeys(st.cur) = MapKeys(currentState) \ {x}
                    /\ \A id \in MapKeys(st.cur) :
                          MapGet(st.cur, id) = MapGet(currentState, id)
                    /\ st.ok /\ Cardinality(st.tms) = 1 /\ st.tid \in st.tms
                    /\ st.n >= 1 /\ (burst < MaxBurst => st.n = burst + 1)
                    /\ st.ds = dataset
               ELSE st = Now)
    /\ [][/\ originalState' # originalState => ~Mutation
          /\ removedFields' # removedFields => ~NotObserver
          /\ \A x \in MapKeys(currentState) \ MapKeys(currentState') :
                \/ CallResetState
                \/ MapHas(removedFields', x) /\ Cardinality(timers') = 1 /\ ~NotObserver]_vars

\* C17 witness: the field t1 holding "A" was removed from the form: its
\* snapshot is the removed snapshot of x, x is not live and a timeout is
\* pending; the <div> with d1 (tracked) and p1 (excluded) was removed as well.
C17_Witness ==
    /\ "t1" \notin attached /\ "t2" \notin attached
    /\ ~MapHas(currentState, "x") /\ MapHas(removedFields, "x")
    /\ MapGet(removedFields, "x") = formatFieldState(value, checked, "t1")
    /\ value["t1"] = "A" /\ timers # {}
    /\ "d1" \notin attached /\ dataset["d1"] # ""
    /\ MapHas(removedFields, dataset["d1"]) /\ ~MapHas(currentState, dataset["d1"])
    /\ ~MapHas(removedFields, "p")

\* C18: a step that changes originalState, ids or snapshots, is none of an
\* input event, a change event, a structural addition or removal,
\* checkForChanges(), getChanges() and the debounced recomputation: these
\* leave it as the constructor set it.
C18_BaselineFrame ==
    [][originalState' # originalState
       => ~(\/ \E e \in Editable, v \in Contents : UserType(e, v)
            \/ \E e \in Editable : UserCommit(e)
            \/ \E r \in Radios : UserClick(r)
            \/ Mutation
            \/ CallCheckForChanges
            \/ CallGetChanges
            \/ \E h \in Handles : TimerFire(h))]_vars

\* C18 witness: the baseline is the one of the construction (x empty, r1
\* unchecked) after x was edited, r1 selected, a field added, a field removed
\* and a recomputation reported.
C18_Witness ==
    /\ MapKeys(originalState) = {"x", "r1"}
    /\ MapGet(originalState, "x").value = Str("")
    /\ MapGet(originalState, "r1").checked = Bool(FALSE)
    /\ MapHas(currentState, "x") /\ MapGet(currentState, "x").value = Str("A")
    /\ MapGet(currentState, "r1").checked = Bool(TRUE)
    /\ MapKeys(currentState) \ MapKeys(originalState) # {}
    /\ removedFields # <<>>
    /\ Len(out.cb) = 1 /\ timers = {}

\* C19: no step takes an id out of removedFields; resetState(), the events,
\* the calls and the recomputation leave removedFields as it is (only the
\* observer writes it); and the observer's handling of an added field, in any
\* state, leaves every removed snapshot as it is, that of the field's own id
\* included.
C19_RemovedOnlyGrows ==
    /\ [][/\ MapKeys(removedFields) \subseteq MapKeys(removedFields')
          /\ CallResetState => removedFields' = removedFields
          /\ removedFields' # removedFields => ~NotObserver]_vars
    /\ [](\A e \in doc :
            /\ observeAdded(Now, value, checked, <<e>>).rem = removedFields
            /\ updateCurrentState(Now, value, checked, e).rem = removedFields)

\* C19 witness: d1 was added, removed and added again, then resetState() was
\* called: its id has a removed snapshot and d1 is under the form, its id no
\* longer live.
C19_Witness ==
    /\ "d1" \in attached /\ dataset["d1"] # ""
    /\ MapHas(removedFields, dataset["d1"])
    /\ ~MapHas(currentState, dataset["d1"])
    /\ MapKeys(currentState) = MapKeys(originalState)
    /\ timers # {}

\* The debounced recomputation has run since the last call of the debounced
\* function, and what it reported is the diff of the maps as they are.
Recomputed ==
    /\ burst = 0 /\ timers = {}
    /\ Len(out.cb) = 1
    /\ out.cb[1].hasChanges = HasChanges
    /\ out.cb[1].changes = Changes
    /\ out.cb[1].event = lastEvent

\* C20: whenever the debounced function has been called (by an event, a
\* structural change or a reset) and its timeout has not elapsed yet, the
\* recomputation eventually runs, and it reports the diff of originalState,
\* currentState and removedFields as they are when it runs, whatever calls
\* came in between.
C20_EventuallyRecomputed ==
    /\ (burst > 0) ~> Recomputed
    /\ [][(\E h \in Handles : TimerFire(h)) => Recomputed']_vars

\* C20 witness: the recomputation has run after a removal and reported the
\* differences of the maps as they are.
C20_Witness == Recomputed /\ HasChanges /\ removedFields # <<>>

\* C21: after the construction originalState and currentState have the same
\* ids, those of the non-excluded fields under the form, each with the
\* snapshot of its field in both maps; removedFields is empty, no timeout is
\* pending, checkForChanges() is false (also as reported to the callback) and
\* the four categories of getChanges() are empty.
C21_InitialState ==
    constructed =>
        /\ MapKeys(originalState) = PresentIds(attached, dataset)
        /\ MapKeys(currentState) = PresentIds(attached, dataset)
        /\ \A e \in attached :
              ~isExcluded(dataset, e) =>
                  /\ MapGet(originalState, getFieldId(dataset, e))
                       = formatFieldState(value, checked, e)
                  /\ MapGet(currentState, getFieldId(dataset, e))
                       = formatFieldState(value, checked, e)
        /\ Len(originalState) = Cardinality(PresentIds(attached, dataset))
        /\ Len(currentState) = Len(originalState)
        /\ removedFields = <<>>
        /\ timers = {} /\ burst = 0
        /\ ~HasChanges
        /\ Changes = NoChanges
        /\ \A k \in 1..Len(out.cb) :
              ~out.cb[k].hasChanges /\ out.cb[k].changes = NoChanges

\* C21 witness: a tracker constructed on a form with an edited text field, a
\* field without id, two excluded fields and a checked radio, and asked for
\* the difference.
C21_Witness ==
    /\ constructed
    /\ {"t1", "d1", "p1", "r1", "r2", "r3"} \subseteq attached
    /\ value["t1"] = "A" /\ checked["r2"]
    /\ Len(out.cb) = 1

====
